---- MODULE Spec2Model ----
(***************************************************************************)
(* Model of the hybrid retrieval-and-generation engine of store-assistant: *)
(*   app/services/rag_service.py     EnterpriseRAGService                  *)
(*   app/services/prompt_service.py  PromptService                         *)
(*   app/channels/webchat/webhook.py message_stream                        *)
(*                                                                         *)
(* Texts are abstracted to the character counts the code looks at.         *)
(* Confidence values are integers: thousandths in results, units of 1e-5   *)
(* inside the scorer.  Similarity scores are integers in units of 1e-4.    *)
(***************************************************************************)
EXTENDS Integers, Sequences, FiniteSets, TLC

VARIABLES
    pc,            \* position of generate_response
    req,           \* the request: message, language hint, history
    analysis,      \* query_analysis
    structured,    \* structured_data
    unstructured,  \* unstructured_data
    response,      \* the dict generate_response returns
    calls,         \* generative-model calls issued, by component
    replies,       \* what the catalog and vector collaborators answered
    raised,        \* components in which an exception was raised
    spc,           \* position of generate_sse_stream
    sreq,          \* the streaming request and the state of its collaborators
    events,        \* SSE events yielded so far
    users,         \* rows of the users table
    convs,         \* rows of the conversations table
    wreq,          \* the webchat /message requests in flight, by request
    running,       \* the task that holds the worker's event loop thread, or 0
    tasks,         \* the requests of one worker: position and failed calls
    ipc,           \* position of ingest_document
    ireq,          \* the document to ingest and what its processing yields
    doc,           \* the documents row: committed status and in-memory status
    index,         \* vectors of the document held by the vector index
    iresult,       \* what ingest_document returned, or that it raised
    fin,           \* input of the pure function under check
    fout           \* its result

vars == <<pc, req, analysis, structured, unstructured, response, calls, replies,
          raised, spc, sreq, events, users, convs, wreq, running, tasks,
          ipc, ireq, doc, index, iresult, fin, fout>>

pipeVars == <<pc, req, analysis, structured, unstructured, response, calls, replies,
              raised>>
streamVars == <<spc, sreq, events>>
funVars == <<fin, fout>>
webVars == <<users, convs, wreq>>
loopVars == <<running, tasks>>
ingestVars == <<ipc, ireq, doc, index, iresult>>
extVars == <<webVars, loopVars, ingestVars>>

NoVal == [none |-> TRUE]

----------------------------------------------------------------------------
(* Bounds of the model *)

MaxProducts == 7       \* longest product list a catalog query returns here
MaxServices == 2       \* longest service list
MaxMatches == 2        \* matches returned by one vector search
MaxHistory == 9        \* longest conversation history
MaxTokens == 2         \* token events of one stream

----------------------------------------------------------------------------
(* Texts: a text is the record of the counts the code inspects.            *)
(*   ar   alphabetic characters of the Arabic block U+0600..U+06FF         *)
(*   arp  non-alphabetic characters of the Arabic block                    *)
(*   lat  other alphabetic characters                                      *)
(*   oth  other characters that are not leading or trailing whitespace     *)
(*   ws   leading and trailing whitespace                                  *)
(*   jod  the text contains "JOD"                                          *)
(*   kw   the lower-cased text contains available, stock or warranty       *)

Text(a, ap, l, o, w, j, k) ==
    [ar |-> a, arp |-> ap, lat |-> l, oth |-> o, ws |-> w, jod |-> j, kw |-> k]

EmptyText == Text(0, 0, 0, 0, 0, FALSE, FALSE)

TextLen(t) == t.ar + t.arp + t.lat + t.oth + t.ws

\* str.strip(): leading and trailing whitespace is removed
Strip(t) == [t EXCEPT !.ws = 0]

\* _count_arabic_chars: characters c with '؀' <= c <= 'ۿ'
CountArabicChars(t) == t.ar + t.arp

\* len([c for c in text if c.isalpha()])
CountAlpha(t) == t.ar + t.lat

Languages == {"en", "ar"}
Hints == {"en", "ar", "auto"}

\* _detect_language; qw: the text contains one of the Arabic question words.
\* The ratios are compared as cross products: r > 0.25 is 4 * arabic > total.
DetectLanguageInclusive(t, qw) ==
    IF TextLen(t) = 0 THEN "en"
    ELSE IF CountAlpha(t) = 0 THEN "en"
    ELSE IF 4 * CountArabicChars(t) >= CountAlpha(t) THEN "ar"
    ELSE IF 10 * CountArabicChars(t) > CountAlpha(t) /\ qw THEN "ar"
    ELSE "en"
DetectLanguage(t, qw) ==
    IF TextLen(t) = 0 THEN "en"
    ELSE IF CountAlpha(t) = 0 THEN "en"
    ELSE IF 4 * CountArabicChars(t) > CountAlpha(t) THEN "ar"
    ELSE IF 10 * CountArabicChars(t) > CountAlpha(t) /\ qw THEN "ar"
    ELSE "en"

----------------------------------------------------------------------------
(* Confidence scorer *)

Intents == {"product_inquiry", "price_check", "availability", "policy", "support",
            "service", "comparison", "recommendation", "greeting", "general"}
Complexities == {"simple", "moderate", "complex"}

Min(a, b) == IF a < b THEN a ELSE b
Max(a, b) == IF a > b THEN a ELSE b

\* round(x, 3) of a value given in units of 1e-5, in thousandths
Round3(x) == (x + 50) \div 100

\* max(0.15, min(0.95, base_confidence)), in units of 1e-5
ClampUnbounded(x) == Max(15000, x)
Clamp(x) == Max(15000, Min(95000, x))

\* the data availability boosts, in units of 1e-5
DataBoostProductsAsServices(hasProducts, hasServices, hasStore) ==
      (IF hasProducts THEN 15000 ELSE 0)
    + (IF hasServices THEN 15000 ELSE 0)
    + (IF hasStore THEN 10000 ELSE 0)
DataBoost(hasProducts, hasServices, hasStore) ==
      (IF hasProducts THEN 25000 ELSE 0)
    + (IF hasServices THEN 15000 ELSE 0)
    + (IF hasStore THEN 10000 ELSE 0)

\* the language consistency bonus: query_analysis["language"] is supported
LanguageBonusNone(lang) == 0
LanguageBonus(lang) == IF lang \in {"en", "ar"} THEN 2000 ELSE 0

\* _calculate_hybrid_confidence.  hasProducts, hasServices, hasStore and
\* hasChunks are the truth values of the four retrieval slices, avg is
\* average_score, text is response_text.
CalculateHybridConfidence(hasProducts, hasServices, hasStore, hasChunks, avg, complexity, intent, lang, text) ==
    LET base == 20000
        data == DataBoost(hasProducts, hasServices, hasStore)
        vec  == IF hasChunks THEN Min(35000, avg * 4) ELSE 0
        cplx == CASE complexity = "simple" -> 5000
                  [] complexity = "complex" -> 0 - 5000
                  [] OTHER -> 0
        int  == IF intent \in {"product_inquiry", "price_check"} /\ hasProducts
                THEN 10000
                ELSE IF intent = "policy" /\ hasChunks THEN 8000 ELSE 0
        qual == IF TextLen(text) = 0 THEN 0
                ELSE (IF TextLen(text) > 100 /\ text.jod THEN 5000 ELSE 0)
                   + (IF text.kw THEN 3000 ELSE 0)
        lng  == LanguageBonus(lang)
    IN  Round3(Clamp(base + data + vec + cplx + int + qual + lng))

----------------------------------------------------------------------------
(* Retrieval results and context assembly.                                 *)
(* A product or service entry is the total length of its rendered fields;  *)
(* store_info is {} (present = FALSE) or a record; a chunk is a record of  *)
(* its score, the length of its text and its source.                       *)

max_context_length == 5000
similarity_threshold == 6000      \* 0.60 in units of 1e-4
max_products_returned == 15
max_services_returned == 8

EmptyStore == [present |-> FALSE, fields |-> 0, hours |-> FALSE]
EmptyStructured == [products |-> <<>>, services |-> <<>>, store_info |-> EmptyStore]
EmptyUnstructured == [chunks |-> <<>>, sources |-> {}, total_found |-> 0,
                      quality_chunks |-> 0, average_score |-> 0]

Prefix(s, n) == SubSeq(s, 1, Min(n, Len(s)))
SuffixFromStart(s, n) == SubSeq(s, 1, Min(n, Len(s)))
Suffix(s, n) == SubSeq(s, Max(1, Len(s) - n + 1), Len(s))

RECURSIVE SumSeq(_)
SumSeq(s) == IF s = <<>> THEN 0 ELSE Head(s) + SumSeq(Tail(s))

\* "\n".join(parts) for parts given by their lengths
JoinLen(parts) == IF parts = <<>> THEN 0 ELSE SumSeq(parts) + Len(parts) - 1

\* lengths of the fixed text of the f-strings of _build_data_context
ProductHeaderLen == 31
ProductTemplateLen == 119         \* with a one-digit index
ServiceHeaderLen == 22
ServiceTemplateLen == 86
StoreHeaderLen == 21
StoreTemplateLen == 35
StoreHoursLen == 53
ChunkHeaderLen == 35
ChunkTemplateLen == 33            \* with a one-digit index and a score as d.dd
SourceNameLen(src) == IF src = "faq.pdf" THEN 7 ELSE 10

\* context_parts of _build_data_context, as the list of the parts' lengths
DataContextParts(sd, ud) ==
    LET prods == Prefix(sd.products, 6)
        chks  == Prefix(ud.chunks, 5)
        pP == IF sd.products = <<>> THEN <<>>
              ELSE <<ProductHeaderLen>>
                   \o [i \in 1..Len(prods) |-> ProductTemplateLen + prods[i]]
        pS == IF sd.services = <<>> THEN <<>>
              ELSE <<ServiceHeaderLen>>
                   \o [i \in 1..Len(sd.services) |-> ServiceTemplateLen + sd.services[i]]
        pI == IF ~sd.store_info.present THEN <<>>
              ELSE <<StoreHeaderLen, StoreTemplateLen + sd.store_info.fields>>
                   \o (IF sd.store_info.hours THEN <<StoreHoursLen>> ELSE <<>>)
        pC == IF ud.chunks = <<>> THEN <<>>
              ELSE <<ChunkHeaderLen>>
                   \o [i \in 1..Len(chks) |->
                         ChunkTemplateLen + SourceNameLen(chks[i].source) + chks[i].len]
    IN  pP \o pS \o pI \o pC

\* len(_build_data_context(structured_data, unstructured_data))
BuildDataContext(sd, ud) == JoinLen(DataContextParts(sd, ud))

\* _build_conversation_context; a history message is [role, len]
HistoryHeaderLen == 24
HistoryWindow == 8
HistoryBodyCap == 150

RoleLabelLen(role) == IF role = "user" THEN 10 ELSE 11   \* "Customer: ", "Assistant: "

HistoryLine(m) ==
    RoleLabelLen(m.role) + Min(m.len, HistoryBodyCap)
        + (IF m.len > HistoryBodyCap THEN 3 ELSE 0)

\* the line of one message: its label, the message it renders, the number of
\* characters of the body it keeps and whether "..." follows
HistoryEntry(m) ==
    [label |-> IF m.role = "user" THEN "Customer" ELSE "Assistant",
     of |-> m.id, kept |-> Min(m.len, HistoryBodyCap),
     ellipsis |-> m.len > HistoryBodyCap]

\* the message lines of the block, between the header and the spacing line
HistoryBlock(history) ==
    LET recent == Suffix(history, HistoryWindow)
    IN  [i \in 1..Len(recent) |-> HistoryEntry(recent[i])]

BuildConversationContext(history) ==
    IF history = <<>> THEN 0
    ELSE LET recent == Suffix(history, HistoryWindow)
         IN  JoinLen(<<HistoryHeaderLen>>
                     \o [i \in 1..Len(recent) |-> HistoryLine(recent[i])]
                     \o <<0>>)

\* the part of user_prompt that holds {data_context}\n{history_context}
AssembledContextLen(sd, ud, history) ==
    BuildDataContext(sd, ud) + 1 + BuildConversationContext(history)

----------------------------------------------------------------------------
(* Canned texts *)

\* _fallback_response: the two apology messages
FallbackMessage(language) ==
    IF language = "ar" THEN Text(107, 3, 23, 52, 0, FALSE, FALSE)
    ELSE Text(0, 0, 190, 65, 0, FALSE, FALSE)

\* PromptService.get_force_arabic_response: hours, contact and generic answers
ForceArabicHours == Text(108, 7, 0, 89, 0, FALSE, FALSE)
ForceArabicContact == Text(133, 7, 23, 105, 0, FALSE, FALSE)
ForceArabicGeneric == Text(71, 3, 23, 46, 0, FALSE, FALSE)

GetForceArabicResponse(hoursWord, contactWord) ==
    IF hoursWord THEN ForceArabicHours
    ELSE IF contactWord THEN ForceArabicContact
    ELSE ForceArabicGeneric

\* _fallback_response(user_message, language)
FallbackResponse(language) ==
    [answer |-> FallbackMessage(language),
     language |-> language,
     sources |-> {"Fallback Response"},
     confidence |-> 150,
     data_sources |-> [structured |-> FALSE, unstructured |-> FALSE,
                       hybrid |-> FALSE, store_info |-> TRUE],
     metadata |-> [products_found |-> 0, services_found |-> 0, context_chunks |-> 0,
                   vector_quality |-> 0, intent |-> "system_error",
                   complexity |-> "error", urgency |-> "high",
                   response_length |-> TextLen(FallbackMessage(language)),
                   processing_successful |-> FALSE,
                   error_type |-> "technical_difficulty"]]

----------------------------------------------------------------------------
(* Inputs of generate_response and outcomes of its collaborators *)

\* a user message: its text, whether it contains an Arabic question word,
\* a service keyword (install, setup, delivery, repair, warranty) or a store
\* keyword (hours, location, contact, address, phone, email)
UserMessage(t, q, ks, kst) == [text |-> t, qw |-> q, kwService |-> ks, kwStore |-> kst]

UserMessages ==
    { UserMessage(Text(0, 0, 24, 6, 0, FALSE, FALSE), FALSE, FALSE, FALSE),
      UserMessage(Text(0, 0, 20, 5, 0, FALSE, FALSE), FALSE, FALSE, TRUE),
      UserMessage(Text(13, 1, 0, 3, 0, FALSE, FALSE), TRUE, FALSE, FALSE),
      UserMessage(Text(2, 0, 10, 3, 0, FALSE, FALSE), TRUE, FALSE, FALSE) }

\* a history of n messages of length l, user and assistant alternating
HistoryOf(n, l) ==
    [i \in 1..n |-> [role |-> IF i % 2 = 1 THEN "user" ELSE "assistant", len |-> l]]

Histories == { HistoryOf(n, 400) : n \in {0, MaxHistory} }

Entities(p, s, i) == [products |-> p, services |-> s, store_info |-> i]
NoEntities == Entities(FALSE, FALSE, FALSE)

\* what the analysis model call produces
AnalysisIntents == {"price_check", "recommendation", "policy", "service", "general", "greeting"}
AnalysisUrgencies == {"high"}
AnalysisEntities == { NoEntities, Entities(TRUE, FALSE, FALSE),
                      Entities(FALSE, TRUE, FALSE), Entities(FALSE, FALSE, TRUE) }
AnalysisOutcomes ==
    { [kind |-> k] : k \in {"api_error", "bad_json"} }
    \cup { [kind |-> "ok", intent |-> i, complexity |-> c, entities |-> e,
             urgency |-> u] :
             i \in AnalysisIntents, c \in Complexities, e \in AnalysisEntities,
             u \in AnalysisUrgencies }

\* what a catalog sub-query produces: failed, or its rows
ProductRows == { [i \in 1..n |-> 60] : n \in {0, MaxProducts} }
ServiceRows == { [i \in 1..n |-> 200] : n \in {0, MaxServices} }
StoreRows == { EmptyStore, [present |-> TRUE, fields |-> 70, hours |-> TRUE] }
QueryOutcomes(rows) == { [failed |-> TRUE] } \cup { [failed |-> FALSE, rows |-> r] : r \in rows }

\* what the vector collaborator returns
Match(sc, l, src) == [score |-> sc, len |-> l, source |-> src]
MatchPool == { Match(5900, 800, "faq.pdf"), Match(8000, 3000, "policy.pdf") }
SeqsUpTo(S, n) == UNION { [1..k -> S] : k \in 0..n }
SearchOutcomes == QueryOutcomes(SeqsUpTo(MatchPool, MaxMatches))

\* what the generation model call produces: an API error, a message without
\* content, or a text
ModelTexts ==
    { EmptyText,
      Text(0, 0, 0, 0, 3, FALSE, FALSE),       \* whitespace only
      Text(0, 0, 40, 10, 1, FALSE, FALSE),     \* short English
      Text(0, 0, 150, 40, 0, TRUE, TRUE),      \* long English with prices
      Text(60, 2, 0, 15, 0, FALSE, FALSE),     \* Arabic
      Text(5, 0, 45, 10, 0, FALSE, TRUE),      \* Arabic ratio 0.1
      Text(3, 0, 7, 2, 0, FALSE, FALSE) }      \* Arabic ratio 0.3
GenerationOutcomes ==
    { [kind |-> k] : k \in {"api_error", "no_content"} }
    \cup { [kind |-> "text", text |-> t] : t \in ModelTexts }

----------------------------------------------------------------------------
(* generate_response, one action per awaited step *)

\* language resolution of _analyze_query, on both of its paths
ResolveLanguage(msg, hint) ==
    IF hint = "auto" THEN DetectLanguage(msg.text, msg.qw) ELSE hint

\* the dict _analyze_query returns: the parsed analysis, or the fallback
\* analysis of its except branch
AnalyzeResultHintOnly(msg, hint, out) ==
    IF out.kind = "ok"
    THEN [intent |-> out.intent, entities |-> out.entities,
          complexity |-> out.complexity, urgency |-> out.urgency,
          requires_real_time_data |-> TRUE,
          language |-> ResolveLanguage(msg, hint),
          has_arabic |-> CountArabicChars(msg.text) > 0]
    ELSE [intent |-> "general", entities |-> NoEntities,
          complexity |-> "simple", urgency |-> "medium",
          requires_real_time_data |-> TRUE,
          language |-> IF hint = "auto" THEN "en" ELSE hint,
          has_arabic |-> CountArabicChars(msg.text) > 0]
AnalyzeResult(msg, hint, out) ==
    IF out.kind = "ok"
    THEN [intent |-> out.intent, entities |-> out.entities,
          complexity |-> out.complexity, urgency |-> out.urgency,
          requires_real_time_data |-> TRUE,
          language |-> ResolveLanguage(msg, hint),
          has_arabic |-> CountArabicChars(msg.text) > 0]
    ELSE [intent |-> "general", entities |-> NoEntities,
          complexity |-> "simple", urgency |-> "medium",
          requires_real_time_data |-> TRUE,
          language |-> ResolveLanguage(msg, hint),
          has_arabic |-> CountArabicChars(msg.text) > 0]

\* _query_products, _query_services, _query_store_info: rows up to the
\* limit, or the empty value of the except branch
QueryProducts(out) == IF out.failed THEN <<>> ELSE Prefix(out.rows, max_products_returned)
QueryServices(out) == IF out.failed THEN <<>> ELSE Prefix(out.rows, max_services_returned)
QueryStoreInfo(out) == IF out.failed THEN EmptyStore ELSE out.rows

\* the conditions under which _retrieve_structured_data issues a sub-query
WantsProducts(a) ==
    \/ a.intent \in {"product_inquiry", "price_check", "availability",
                     "comparison", "recommendation"}
    \/ a.entities.products
WantsServices(a, msg) ==
    a.intent \in {"service", "support"} \/ a.entities.services \/ msg.kwService
WantsStoreInfo(a, msg) ==
    a.intent \in {"policy", "support", "general"} \/ a.entities.store_info \/ msg.kwStore

\* the quality filter of _retrieve_unstructured_data
QualityChunksAnyScore(results) ==
    SelectSeq(results, LAMBDA r : r.len > 20)
QualityChunks(results) ==
    SelectSeq(results, LAMBDA r : r.score >= similarity_threshold /\ r.len > 20)

RetrieveUnstructuredResult(out) ==
    IF out.failed THEN EmptyUnstructured
    ELSE LET kept == QualityChunks(out.rows)
         IN  [chunks |-> Prefix(kept, 8),
              sources |-> { kept[i].source : i \in 1..Len(kept) },
              total_found |-> Len(out.rows),
              quality_chunks |-> Len(kept),
              average_score |-> IF kept = <<>> THEN 0
                                ELSE SumSeq([i \in 1..Len(kept) |-> kept[i].score])
                                     \div Len(kept)]

\* the labels _generate_hybrid_response appends to the source list
CatalogSources(sd) ==
    (IF sd.products # <<>> THEN {"Product Database"} ELSE {})
    \cup (IF sd.services # <<>> THEN {"Service Database"} ELSE {})
    \cup (IF sd.store_info.present THEN {"Store Information"} ELSE {})

\* response_data of _generate_hybrid_response for the model text ai
ResponseData(a, hint, sd, ud, ai) ==
    [answer |-> ai,
     language |-> a.language,
     sources |-> ud.sources \cup CatalogSources(sd),
     confidence |-> CalculateHybridConfidence(
                        sd.products # <<>>, sd.services # <<>>, sd.store_info.present,
                        ud.chunks # <<>>, ud.average_score,
                        a.complexity, a.intent, a.language, ai),
     data_sources |-> [structured |-> sd.products # <<>> \/ sd.services # <<>>,
                       unstructured |-> ud.chunks # <<>>,
                       hybrid |-> TRUE,
                       store_info |-> sd.store_info.present],
     metadata |-> [products_found |-> Len(sd.products),
                   services_found |-> Len(sd.services),
                   context_chunks |-> Len(ud.chunks),
                   vector_quality |-> ud.average_score,
                   intent |-> a.intent, complexity |-> a.complexity,
                   urgency |-> a.urgency,
                   response_length |-> TextLen(ai),
                   processing_successful |-> TRUE,
                   error_type |-> "none"]]

NoReplies == [products |-> NoVal, services |-> NoVal, store_info |-> NoVal,
              vector |-> NoVal]

PipeIdle ==
    /\ pc = "idle" /\ req = NoVal /\ analysis = NoVal
    /\ structured = EmptyStructured /\ unstructured = EmptyUnstructured
    /\ response = NoVal
    /\ calls = [analysis |-> 0, generation |-> 0, system_prompt |-> "none"]
    /\ replies = NoReplies
    /\ raised = {}

StreamIdle == spc = "idle" /\ sreq = NoVal /\ events = <<>>

FunIdle == fin = NoVal /\ fout = NoVal

WebIdle == users = {} /\ convs = {} /\ wreq = NoVal

LoopIdle == running = 0 /\ tasks = NoVal

IngestIdle ==
    /\ ipc = "idle" /\ ireq = NoVal /\ doc = NoVal /\ index = 0
    /\ iresult = NoVal

ExtIdle == WebIdle /\ LoopIdle /\ IngestIdle

Init == PipeIdle /\ StreamIdle /\ ExtIdle /\ FunIdle

\* a call of generate_response(user_message, language, conversation_history)
Receive ==
    /\ pc = "idle"
    /\ \E m \in UserMessages, h \in Hints, hist \in Histories :
         req' = [message |-> m, language |-> h, history |-> hist]
    /\ pc' = "analyze"
    /\ UNCHANGED <<analysis, structured, unstructured, response, calls, replies, raised>>
    /\ UNCHANGED <<streamVars, funVars, extVars>>

\* step 1: _analyze_query
AnalyzeQuery ==
    /\ pc = "analyze"
    /\ \E out \in AnalysisOutcomes :
         /\ analysis' = AnalyzeResult(req.message, req.language, out)
         /\ raised' = IF out.kind = "ok" THEN raised ELSE raised \cup {"analyzer"}
    /\ calls' = [calls EXCEPT !.analysis = @ + 1]
    /\ pc' = "structured"
    /\ UNCHANGED <<req, structured, unstructured, response, replies>>
    /\ UNCHANGED <<streamVars, funVars, extVars>>

\* structured_data of _retrieve_structured_data: each sub-query that is issued
\* fills its own slice, the others keep their initial empty value
StructuredDataAbortAll(wp, wsv, wi, po, so, io) ==
    IF (wp /\ po.failed) \/ (wsv /\ so.failed) \/ (wi /\ io.failed)
    THEN EmptyStructured
    ELSE [products |-> IF wp THEN QueryProducts(po) ELSE <<>>,
          services |-> IF wsv THEN QueryServices(so) ELSE <<>>,
          store_info |-> IF wi THEN QueryStoreInfo(io) ELSE EmptyStore]
StructuredData(wp, wsv, wi, po, so, io) ==
    [products |-> IF wp THEN QueryProducts(po) ELSE <<>>,
     services |-> IF wsv THEN QueryServices(so) ELSE <<>>,
     store_info |-> IF wi THEN QueryStoreInfo(io) ELSE EmptyStore]

\* step 2: _retrieve_structured_data
RetrieveStructuredData ==
    /\ pc = "structured"
    /\ \E po \in QueryOutcomes(ProductRows), so \in QueryOutcomes(ServiceRows),
          io \in QueryOutcomes(StoreRows) :
         LET wp == WantsProducts(analysis)
             wsv == WantsServices(analysis, req.message)
             wi == WantsStoreInfo(analysis, req.message)
         IN  \* an outcome is drawn only for a sub-query that is issued
             /\ ~wp => po = [failed |-> FALSE, rows |-> <<>>]
             /\ ~wsv => so = [failed |-> FALSE, rows |-> <<>>]
             /\ ~wi => io = [failed |-> FALSE, rows |-> EmptyStore]
             /\ structured' = StructuredData(wp, wsv, wi, po, so, io)
             /\ replies' = [replies EXCEPT
                               !.products = IF wp THEN po ELSE NoVal,
                               !.services = IF wsv THEN so ELSE NoVal,
                               !.store_info = IF wi THEN io ELSE NoVal]
             /\ raised' = raised
                    \cup (IF wp /\ po.failed THEN {"products"} ELSE {})
                    \cup (IF wsv /\ so.failed THEN {"services"} ELSE {})
                    \cup (IF wi /\ io.failed THEN {"store_info"} ELSE {})
    /\ pc' = "unstructured"
    /\ UNCHANGED <<req, analysis, unstructured, response, calls>>
    /\ UNCHANGED <<streamVars, funVars, extVars>>

\* step 3: _retrieve_unstructured_data
RetrieveUnstructuredData ==
    /\ pc = "unstructured"
    /\ \E out \in SearchOutcomes :
         /\ unstructured' = RetrieveUnstructuredResult(out)
         /\ replies' = [replies EXCEPT !.vector = out]
         /\ raised' = IF out.failed THEN raised \cup {"vector"} ELSE raised
    /\ pc' = "generate"
    /\ UNCHANGED <<req, analysis, structured, response, calls>>
    /\ UNCHANGED <<streamVars, funVars, extVars>>

\* _build_enterprise_system_prompt: the Arabic template for "ar", the English
\* one for every other value
BuildEnterpriseSystemPrompt(language) ==
    IF language = "ar" THEN "arabic_template" ELSE "english_template"

\* the argument _generate_hybrid_response passes to
\* _build_enterprise_system_prompt: its language parameter, which is the hint
SystemPromptLanguage(a, hint) == hint

\* what _generate_hybrid_response returns for one outcome of its model call:
\* response_data, or the fallback of its except branch
HybridResponseNoneAsEmpty(a, hint, sd, ud, out) ==
    IF out.kind = "text" THEN ResponseData(a, hint, sd, ud, Strip(out.text))
    ELSE IF out.kind = "no_content" THEN ResponseData(a, hint, sd, ud, EmptyText)
    ELSE FallbackResponse(hint)
HybridResponse(a, hint, sd, ud, out) ==
    IF out.kind = "text" THEN ResponseData(a, hint, sd, ud, Strip(out.text))
    ELSE FallbackResponse(hint)

\* the number of model calls _generate_hybrid_response issues for one request:
\* one chat.completions.create, outside any loop
GenerationCallsRetry(a, out) ==
    IF /\ out.kind = "text" /\ a.language = "ar"
       /\ 10 * CountArabicChars(out.text) < 3 * CountAlpha(out.text)
    THEN 3 ELSE 1
GenerationCalls(a, out) == 1

\* step 4: _generate_hybrid_response.  all_sources is the list object held by
\* unstructured_data["sources"], so the appends change that list too.
GenerateHybridResponse ==
    /\ pc = "generate"
    /\ \E out \in GenerationOutcomes :
         /\ response' = HybridResponse(analysis, req.language, structured,
                                       unstructured, out)
         /\ calls' = [calls EXCEPT
                        !.generation = @ + GenerationCalls(analysis, out),
                        !.system_prompt = BuildEnterpriseSystemPrompt(
                                              SystemPromptLanguage(analysis, req.language))]
         /\ raised' = IF out.kind = "text" THEN raised ELSE raised \cup {"generator"}
         /\ unstructured' =
              IF out.kind = "text"
              THEN [unstructured EXCEPT !.sources = @ \cup CatalogSources(structured)]
              ELSE unstructured
    /\ pc' = "analytics"
    /\ UNCHANGED <<req, analysis, structured, replies>>
    /\ UNCHANGED <<streamVars, funVars, extVars>>

\* step 5 and the return: _log_query_analytics only writes a log record
LogAndReturn ==
    /\ pc = "analytics"
    /\ pc' = "returned"
    /\ UNCHANGED <<req, analysis, structured, unstructured, response, calls, replies,
                   raised>>
    /\ UNCHANGED <<streamVars, funVars, extVars>>

Next ==
    \/ Receive
    \/ AnalyzeQuery
    \/ RetrieveStructuredData
    \/ RetrieveUnstructuredData
    \/ GenerateHybridResponse
    \/ LogAndReturn

Spec == Init /\ [][Next]_vars

----------------------------------------------------------------------------
(* The confidence scorer on its whole input space *)

ScoreSamples == {0, 2500, 6000, 8749, 8750, 8751, 10000}

\* query_analysis["language"] is the hint when the hint is not auto, and
\* the hint is whatever locale the channel passes
ScorerLanguages == Languages \cup {"fr"}

\* an answer without currency marker and without availability terms, an
\* empty answer, a long answer with both, an Arabic answer with the terms
PlainAnswer == Text(0, 0, 90, 20, 0, FALSE, FALSE)

ScorerInputs ==
    [fn : {"scorer"}, hasProducts : BOOLEAN, hasServices : BOOLEAN,
     hasStore : BOOLEAN, hasChunks : BOOLEAN, avg : ScoreSamples,
     complexity : Complexities, intent : Intents, language : ScorerLanguages,
     text : {EmptyText, PlainAnswer, Text(0, 0, 150, 40, 0, TRUE, TRUE),
             Text(60, 2, 0, 15, 0, FALSE, TRUE)}]

ScorerInit == PipeIdle /\ StreamIdle /\ ExtIdle /\ fin \in ScorerInputs /\ fout = NoVal

ApplyScorer ==
    /\ fin # NoVal /\ fin.fn = "scorer" /\ fout = NoVal
    /\ fout' = [confidence |->
                   CalculateHybridConfidence(fin.hasProducts, fin.hasServices,
                       fin.hasStore, fin.hasChunks, fin.avg, fin.complexity,
                       fin.intent, fin.language, fin.text)]
    /\ UNCHANGED <<fin, pipeVars, streamVars, extVars>>

ScorerNext == ApplyScorer

ScorerSpec == ScorerInit /\ [][ScorerNext]_vars

----------------------------------------------------------------------------
(* Context assembly on catalog results, chunk sets and histories *)

MaxChunks == 5         \* chunks in a chunk set
ChunkLens == {21, 1000}
EntryLens == {60, 200}
HistoryLens == {40, 400}

ContextInputs ==
    { [fn |-> "context",
       sd |-> [products |-> [i \in 1..np |-> el], services |-> [i \in 1..ns |-> el],
               store_info |-> st],
       ud |-> [chunks |-> [i \in 1..nc |-> Match(8000, cl, "policy.pdf")]],
       history |-> HistoryOf(nh, hl)] :
        np \in {0, 1, MaxProducts}, ns \in {0, MaxServices}, el \in EntryLens,
        st \in StoreRows, nc \in 0..MaxChunks, cl \in ChunkLens,
        nh \in {0, 1, MaxHistory}, hl \in HistoryLens }

ContextInit == PipeIdle /\ StreamIdle /\ ExtIdle /\ fin \in ContextInputs /\ fout = NoVal

\* the context text _generate_hybrid_response puts into user_prompt
ApplyAssemble ==
    /\ fin # NoVal /\ fin.fn = "context" /\ fout = NoVal
    /\ fout' = [data |-> BuildDataContext(fin.sd, fin.ud),
                history |-> BuildConversationContext(fin.history),
                total |-> AssembledContextLen(fin.sd, fin.ud, fin.history)]
    /\ UNCHANGED <<fin, pipeVars, streamVars, extVars>>

ContextNext == ApplyAssemble

ContextSpec == ContextInit /\ [][ContextNext]_vars

----------------------------------------------------------------------------
(* The streaming endpoint: generate_sse_stream of message_stream *)

Locales == {"none", "en", "ar"}
SessionIds == {"none", "s1"}

\* msg.session_id or str(uuid.uuid4())
SessionId(msg) == IF msg.session_id = "none" THEN "uuid" ELSE msg.session_id

SessionEvent(sid) == [type |-> "session", session_id |-> sid]
DoneEvent == [type |-> "done"]
TokenEvent(n) == [type |-> "token", content |-> n]
CompleteEvent(c) == [type |-> "complete", content |-> c]

\* error_response of the except branch: the message follows msg.locale and
\* the "error" field is str(e)
ErrorEvent(locale, exc) ==
    [type |-> "error", content |-> IF locale = "ar" THEN "error_ar" ELSE "error_en",
     error |-> exc]

\* the events the except branch yields
ExceptEventsWithDone(locale, exc) == <<ErrorEvent(locale, exc), DoneEvent>>
ExceptEvents(locale, exc) == <<ErrorEvent(locale, exc)>>

\* where control goes when the loop over the producer raises: the except
\* branch of the generator
AfterLoopErrorContinue == "saving"
AfterLoopError == "failed"

\* the chunks generate_streaming_response may yield next: token events, then
\* one complete event with the full text, then nothing
ProducerChunks(sent, complete) ==
    IF complete # "none" THEN {}
    ELSE (IF sent < MaxTokens THEN {TokenEvent(sent + 1)} ELSE {})
         \cup {CompleteEvent("text"), CompleteEvent("")}

StreamInit == PipeIdle /\ FunIdle /\ StreamIdle /\ ExtIdle

\* POST /message/stream with a WebMsg
StreamRequest ==
    /\ spc = "idle"
    /\ \E l \in Locales, sid \in SessionIds, known \in BOOLEAN :
         /\ (sid = "none") => ~known
         /\ sreq' = [locale |-> l, session_id |-> sid, user_known |-> known,
                     sent |-> 0, complete_response |-> "none", exc |-> "none"]
    /\ spc' = "user"
    /\ UNCHANGED <<events, pipeVars, funVars, extVars>>

\* get or create the user; the query or the commit may raise
GetOrCreateUser ==
    /\ spc = "user"
    /\ \/ /\ sreq' = [sreq EXCEPT !.user_known = TRUE]
          /\ spc' = "history"
       \/ /\ sreq' = [sreq EXCEPT !.exc = "db_user"]
          /\ spc' = "failed"
    /\ UNCHANGED <<events, pipeVars, funVars, extVars>>

\* load and format the conversation history; the query may raise
LoadHistory ==
    /\ spc = "history"
    /\ \/ /\ spc' = "session" /\ sreq' = sreq
       \/ /\ sreq' = [sreq EXCEPT !.exc = "db_history"]
          /\ spc' = "failed"
    /\ UNCHANGED <<events, pipeVars, funVars, extVars>>

\* yield the session event
YieldSession ==
    /\ spc = "session"
    /\ events' = Append(events, SessionEvent(SessionId(sreq)))
    /\ spc' = "streaming"
    /\ UNCHANGED <<sreq, pipeVars, funVars, extVars>>

\* one iteration of the loop over generate_streaming_response: the chunk is
\* forwarded and a complete chunk is recorded
ForwardChunk ==
    /\ spc = "streaming"
    /\ \E c \in ProducerChunks(sreq.sent, sreq.complete_response) :
         /\ events' = Append(events, c)
         /\ sreq' = IF c.type = "complete"
                    THEN [sreq EXCEPT !.complete_response = c.content]
                    ELSE [sreq EXCEPT !.sent = @ + 1]
    /\ spc' = "streaming"
    /\ UNCHANGED <<pipeVars, funVars, extVars>>

\* the producer raises: the model call failed
ProducerFails ==
    /\ spc = "streaming"
    /\ sreq' = [sreq EXCEPT !.exc = "model"]
    /\ spc' = AfterLoopError
    /\ events' = events
    /\ UNCHANGED <<pipeVars, funVars, extVars>>

\* the producer is exhausted
ProducerEnds ==
    /\ spc = "streaming"
    /\ sreq.complete_response # "none"
    /\ spc' = "saving"
    /\ UNCHANGED <<sreq, events, pipeVars, funVars, extVars>>

\* store the turn when complete_response is not empty; a commit may raise
SaveConversation ==
    /\ spc = "saving"
    /\ \/ /\ spc' = "done" /\ sreq' = sreq
       \/ /\ sreq.complete_response \notin {"none", ""}
          /\ sreq' = [sreq EXCEPT !.exc = "db_save"]
          /\ spc' = "failed"
    /\ UNCHANGED <<events, pipeVars, funVars, extVars>>

\* yield the done event
YieldDone ==
    /\ spc = "done"
    /\ events' = Append(events, DoneEvent)
    /\ spc' = "finished"
    /\ UNCHANGED <<sreq, pipeVars, funVars, extVars>>

\* the except branch
HandleStreamException ==
    /\ spc = "failed"
    /\ events' = events \o ExceptEvents(sreq.locale, sreq.exc)
    /\ spc' = "finished"
    /\ UNCHANGED <<sreq, pipeVars, funVars, extVars>>

StreamNext ==
    \/ StreamRequest
    \/ GetOrCreateUser
    \/ LoadHistory
    \/ YieldSession
    \/ ForwardChunk
    \/ ProducerFails
    \/ ProducerEnds
    \/ SaveConversation
    \/ YieldDone
    \/ HandleStreamException

StreamSpec == StreamInit /\ [][StreamNext]_vars

\* the generator is scheduled until it returns
FairStreamSpec == StreamSpec /\ WF_vars(StreamNext)

----------------------------------------------------------------------------
(* Properties *)

Returned == pc = "returned"

EventIndexes(types) == { i \in 1..Len(events) : events[i].type \in types }

\* the Arabic ratio of a text is below 0.3
ArabicRatioBelow03(t) == 10 * CountArabicChars(t) < 3 * CountAlpha(t)

ArabicTemplates ==
    { FallbackMessage("ar"), ForceArabicHours, ForceArabicContact, ForceArabicGeneric }

\* C1: for every combination of the scorer's inputs the confidence it returns
\* lies in [0.15, 0.95].
C1_ConfidenceInRange ==
    (fin # NoVal /\ fout # NoVal) => (fout.confidence >= 150 /\ fout.confidence <= 950)

\* the scorer has run on inputs whose increments add up to more than 0.95
C1_Witness ==
    /\ fin # NoVal /\ fout # NoVal
    /\ fin.hasProducts /\ fin.hasServices /\ fin.hasStore /\ fin.hasChunks
    /\ fin.avg = 10000 /\ fin.complexity = "simple"
    /\ fout.confidence = 950

\* C2 as stated: an exception raised in the analyzer, a retriever or the
\* generator yields an answer with confidence 0.15 that is marked unsuccessful.
C2_AnyExceptionYieldsFallback ==
    (Returned /\ raised # {}) =>
        (response.confidence = 150 /\ ~response.metadata.processing_successful)

\* C2 amended: an exception raised in the generator yields an answer with
\* confidence 0.15 that is marked unsuccessful; an exception raised only in the
\* analyzer or a retriever is absorbed there and the answer is marked
\* successful; an answer is returned in every case.
C2_GeneratorExceptionYieldsFallback ==
    Returned =>
        /\ response # NoVal
        /\ ("generator" \in raised) =>
              (response.confidence = 150 /\ ~response.metadata.processing_successful)
        /\ ("generator" \notin raised) => response.metadata.processing_successful

\* the generator raised and the fallback answer was returned
C2_Witness ==
    /\ Returned /\ "generator" \in raised
    /\ response.confidence = 150 /\ ~response.metadata.processing_successful

\* C3: every event sequence of the streaming endpoint is finite and ends with
\* exactly one terminal event, done or error; nothing follows a terminal event.
C3_TerminalInv ==
    LET term == EventIndexes({"done", "error"})
    IN  /\ Cardinality(term) <= 1
        /\ term # {} => (term = {Len(events)} /\ spc = "finished")
        /\ spc = "finished" => term # {}

C3_ExactlyOneTerminal == []C3_TerminalInv /\ <>(spc = "finished")

\* the model call failed after a token was sent and the stream ended with error
C3_Witness ==
    /\ spc = "finished" /\ sreq.exc = "model"
    /\ EventIndexes({"token"}) # {}
    /\ events[Len(events)].type = "error"

\* C4: the first event of every streaming event sequence is the session event
\* and it is emitted exactly once, whatever step fails.
C4_SessionFirst ==
    /\ events # <<>> => events[1].type = "session"
    /\ spc = "finished" => Cardinality(EventIndexes({"session"})) = 1

C6_ContextWithinBudget ==
    (fin # NoVal /\ fout # NoVal) => fout.total <= max_context_length

\* C7: when the resolved language is Arabic, the returned answer has an Arabic
\* ratio of at least 0.3 or is one of the canned Arabic texts.
C7_ArabicAnswerEnforced ==
    (Returned /\ analysis.language = "ar") =>
        (~ArabicRatioBelow03(response.answer) \/ response.answer \in ArabicTemplates)

\* C8: the response generator issues at most two model calls for one request,
\* whatever the outcome of the language check.
C8_AtMostTwoGenerationCalls == calls.generation <= 2

\* an Arabic request was answered with a text whose Arabic ratio is below 0.3
C8_Witness ==
    /\ Returned /\ analysis.language = "ar"
    /\ response.metadata.processing_successful
    /\ ArabicRatioBelow03(response.answer)
    /\ calls.generation = 1

\* C9: the language of every returned answer, fallback answers included, is
\* en or ar and never auto.
C9_LanguageConcrete == Returned => response.language \in Languages

\* C10: the text of a returned answer is never the empty string.
C10_AnswerNotEmpty == Returned => TextLen(response.answer) > 0

\* C11: when the analysis model call fails or its output cannot be parsed,
\* _analyze_query returns the fixed default analysis, with the language
\* detected from the text when the hint is auto and the hint otherwise.
C11_AnalyzerDefault ==
    ("analyzer" \in raised) =>
        /\ pc # "analyze"
        /\ analysis.intent = "general"
        /\ analysis.entities = [products |-> FALSE, services |-> FALSE,
                                store_info |-> FALSE]
        /\ analysis.urgency = "medium"
        /\ analysis.complexity = "simple"
        /\ analysis.requires_real_time_data
        /\ analysis.language =
             IF req.language = "auto"
             THEN DetectLanguage(req.message.text, req.message.qw)
             ELSE req.language

\* the analysis call failed on an Arabic message sent with the hint auto
C11_Witness ==
    /\ pc = "structured" /\ "analyzer" \in raised
    /\ req.language = "auto" /\ analysis.language = "ar"

\* the slices hold what their collaborators answered
SliceOf(reply, empty, rows) ==
    IF reply = NoVal THEN empty ELSE IF reply.failed THEN empty ELSE rows

C13_ProductsSimpleAtLeastHalf ==
    (fout # NoVal /\ fin.fn = "scorer" /\ fin.hasProducts
        /\ fin.complexity = "simple") => fout.confidence >= 500

\* the bound is met: products only, simple, no intent bonus, no language
\* bonus and an answer that earns no text-quality bonus
C13_Witness ==
    /\ fout # NoVal /\ fin.fn = "scorer" /\ fin.hasProducts
    /\ fin.complexity = "simple" /\ fout.confidence = 500

\* the scorer ran on no products, no services, no store info and no chunks
\* with complexity simple
NoEvidenceSimple ==
    /\ fout # NoVal /\ fin.fn = "scorer"
    /\ ~fin.hasProducts /\ ~fin.hasServices /\ ~fin.hasStore /\ ~fin.hasChunks
    /\ fin.complexity = "simple"

C15_NoDataAllFlagsFalse ==
    (Returned /\ response.metadata.processing_successful
        /\ structured = EmptyStructured /\ unstructured.chunks = <<>>) =>
        /\ ~response.data_sources.structured
        /\ ~response.data_sources.unstructured
        /\ ~response.data_sources.hybrid
        /\ ~response.data_sources.store_info

\* C18: the system prompt used for generation is the Arabic template whenever
\* the resolved language of the query is Arabic, the hint auto included, and
\* the English template otherwise.
C18_PromptByResolvedLanguage ==
    (calls.system_prompt # "none") =>
        (calls.system_prompt = "arabic_template" <=> analysis.language = "ar")

-----------------------------------------------------------------------------
(* _detect_language on texts given character by character *)

MaxTextLen == 8        \* characters in a text

\* characters by name: two Arabic letters (U+0645, U+0627), a Latin letter
\* and the Arabic question mark (U+061F), which is in the Arabic block and is
\* not alphabetic
ArabicLetters == {"meem", "alef"}
ArabicMarks == {"qmark"}
LatinLetters == {"a"}

\* the first of the question words of _detect_language, as characters
QuestionWord == <<"meem", "alef">>

\* word in text
Contains(cs, w) ==
    \E i \in 1..(Len(cs) - Len(w) + 1) : SubSeq(cs, i, i + Len(w) - 1) = w

CountIn(cs, set) == Cardinality({ i \in 1..Len(cs) : cs[i] \in set })

\* the character counts of a text
TextOf(cs) ==
    Text(CountIn(cs, ArabicLetters), CountIn(cs, ArabicMarks),
         CountIn(cs, LatinLetters), 0, 0, FALSE, FALSE)

\* every text of up to MaxTextLen of these characters
DetectInit ==
    /\ PipeIdle /\ StreamIdle /\ ExtIdle /\ fout = NoVal
    /\ fin \in { [fn |-> "detect", chars |-> cs] :
                  cs \in SeqsUpTo(ArabicLetters \cup ArabicMarks \cup LatinLetters,
                                  MaxTextLen) }

ApplyDetect ==
    /\ fin # NoVal /\ fin.fn = "detect" /\ fout = NoVal
    /\ fout' = [language |->
                   DetectLanguage(TextOf(fin.chars), Contains(fin.chars, QuestionWord))]
    /\ UNCHANGED <<fin, pipeVars, streamVars, extVars>>

DetectSpec == DetectInit /\ [][ApplyDetect]_vars

Detected == fout # NoVal /\ fin.fn = "detect"

\* C17: detect returns en or ar; ar exactly when the ratio of Arabic-block
\* characters to alphabetic characters exceeds 0.25, or exceeds 0.1 and the
\* text contains an Arabic question word; en for empty text and for text
\* without alphabetic characters.
C17_DetectByRatio ==
    Detected =>
        LET block == CountIn(fin.chars, ArabicLetters \cup ArabicMarks)
            alpha == CountIn(fin.chars, ArabicLetters \cup LatinLetters)
        IN  /\ fout.language \in {"en", "ar"}
            /\ fout.language = "ar" <=>
                 /\ alpha > 0
                 /\ \/ 4 * block > alpha
                    \/ 10 * block > alpha /\ Contains(fin.chars, QuestionWord)
            /\ (fin.chars = <<>> \/ alpha = 0) => fout.language = "en"

\* a text at ratio 0.25 exactly that is Arabic only by its question word
C17_Witness ==
    /\ Detected /\ fout.language = "ar"
    /\ 4 * CountIn(fin.chars, ArabicLetters \cup ArabicMarks)
         = CountIn(fin.chars, ArabicLetters \cup LatinLetters)
    /\ Contains(fin.chars, QuestionWord)

-----------------------------------------------------------------------------
(* _build_conversation_context on histories of every length *)

\* messages numbered in their original order, roles alternating, bodies at
\* the cap and one character over it
HistoryInit ==
    /\ PipeIdle /\ StreamIdle /\ ExtIdle /\ fout = NoVal
    /\ fin \in { [fn |-> "history",
                  history |-> [i \in 1..Len(lens) |->
                                 [id |-> i, len |-> lens[i],
                                  role |-> IF i % 2 = 1 THEN first
                                           ELSE IF first = "user" THEN "assistant"
                                           ELSE "user"]]] :
                  first \in {"user", "assistant"},
                  lens \in SeqsUpTo({HistoryBodyCap, HistoryBodyCap + 1}, MaxHistory) }

ApplyHistory ==
    /\ fin # NoVal /\ fin.fn = "history" /\ fout = NoVal
    /\ fout' = [lines |-> HistoryBlock(fin.history),
                len |-> BuildConversationContext(fin.history)]
    /\ UNCHANGED <<fin, pipeVars, streamVars, extVars>>

HistorySpec == HistoryInit /\ [][ApplyHistory]_vars

HistoryBuilt == fout # NoVal /\ fin.fn = "history"

\* C19: the history block holds exactly the last min(n, 8) messages in their
\* original order, each body cut to at most 150 characters and followed by
\* an ellipsis when it was longer.
C19_LastEightCapped ==
    HistoryBuilt =>
        LET h == fin.history
            n == Len(h)
            k == IF n < 8 THEN n ELSE 8
        IN  /\ Len(fout.lines) = k
            /\ \A i \in 1..k :
                 /\ fout.lines[i].of = h[n - k + i].id
                 /\ fout.lines[i].kept <= 150
                 /\ fout.lines[i].kept =
                      (IF h[n - k + i].len > 150 THEN 150 ELSE h[n - k + i].len)
                 /\ fout.lines[i].ellipsis <=> h[n - k + i].len > 150

\* a history longer than the window, with a body over the cap and one at it
C19_Witness ==
    /\ HistoryBuilt /\ Len(fin.history) > 8
    /\ Len(fout.lines) = 8 /\ fout.lines[1].of = Len(fin.history) - 7
    /\ fout.lines[1].ellipsis /\ ~fout.lines[8].ellipsis

-----------------------------------------------------------------------------
(* _retrieve_unstructured_data on lists of matches *)

MaxResults == 9        \* matches the vector collaborator returns

\* a match at the threshold with the shortest text that passes, a good match,
\* a match just under the threshold and a match with a text too short
RetrieverPool ==
    { Match(6000, 21, "faq.pdf"), Match(8000, 3000, "policy.pdf"),
      Match(5999, 3000, "returns.pdf"), Match(9000, 19, "stub.pdf") }

RetrieverInit ==
    /\ PipeIdle /\ StreamIdle /\ ExtIdle /\ fout = NoVal
    /\ fin \in { [fn |-> "retriever", rows |-> rows] :
                  rows \in SeqsUpTo(RetrieverPool, MaxResults) }

ApplyRetriever ==
    /\ fin # NoVal /\ fin.fn = "retriever" /\ fout = NoVal
    /\ fout' = RetrieveUnstructuredResult([failed |-> FALSE, rows |-> fin.rows])
    /\ UNCHANGED <<fin, pipeVars, streamVars, extVars>>

RetrieverSpec == RetrieverInit /\ [][ApplyRetriever]_vars

Retrieved == fout # NoVal /\ fin.fn = "retriever"

\* C20: every chunk of the retriever's result has a score of at least 0.60
\* and a text of at least 20 characters, and the result holds at most 8
\* chunks.
C20_ChunksPassFilter ==
    Retrieved =>
        /\ Len(fout.chunks) <= 8
        /\ \A i \in 1..Len(fout.chunks) :
             fout.chunks[i].score >= 6000 /\ fout.chunks[i].len >= 20

\* more than 8 matches pass the filter, one of them on both boundaries
C20_Witness ==
    /\ Retrieved /\ Len(fout.chunks) = 8 /\ fout.quality_chunks > 8
    /\ \E i \in 1..8 : fout.chunks[i].score = 6000 /\ fout.chunks[i].len = 21

-----------------------------------------------------------------------------
(* _query_products on catalogs.  A string is the sequence of its characters *)
(* and a product row is a record of the columns the query reads.            *)

MaxCatalog == 2        \* rows of the products table

\* str.lower() on the characters the names use
Lower(c) ==
    CASE c = "A" -> "a" [] c = "G" -> "g" [] c = "M" -> "m"
      [] c = "P" -> "p" [] c = "S" -> "s" [] OTHER -> c

\* column.ilike("%pattern%")
ILikeCaseSensitive(value, pattern) == Contains(value, pattern)
ILike(value, pattern) ==
    Contains([i \in 1..Len(value) |-> Lower(value[i])],
             [i \in 1..Len(pattern) |-> Lower(pattern[i])])

\* str.split(): the maximal runs of characters that are not whitespace
RECURSIVE SplitFrom(_, _, _)
SplitFrom(cs, i, cur) ==
    IF i > Len(cs) THEN (IF cur = <<>> THEN <<>> ELSE <<cur>>)
    ELSE IF cs[i] = " "
         THEN (IF cur = <<>> THEN <<>> ELSE <<cur>>) \o SplitFrom(cs, i + 1, <<>>)
         ELSE SplitFrom(cs, i + 1, Append(cur, cs[i]))

Range(f) == { f[i] : i \in DOMAIN f }

\* the words of the product entities that become name conditions
NameWords(products) ==
    UNION { { w \in Range(SplitFrom(products[i], 1, <<>>)) : Len(w) > 2 } : i \in DOMAIN products }

\* the characters in byte order, for ORDER BY name
CharOrder ==
    <<" ", "1", "2", "4", "5", "A", "G", "M", "P", "S", "a", "e", "g", "h",
      "i", "l", "m", "n", "o", "p", "r", "s", "u", "x", "y">>

RECURSIVE LexLess(_, _)
LexLess(a, b) ==
    IF a = <<>> THEN b # <<>>
    ELSE IF b = <<>> THEN FALSE
    ELSE IF Head(a) = Head(b) THEN LexLess(Tail(a), Tail(b))
    ELSE (CHOOSE i \in 1..Len(CharOrder) : CharOrder[i] = Head(a))
           < (CHOOSE i \in 1..Len(CharOrder) : CharOrder[i] = Head(b))

\* the intent-based ORDER BY: row p sorts strictly before row q
SortsBefore(intent, p, q) ==
    CASE intent = "recommendation" ->
           \/ p.is_featured /\ ~q.is_featured
           \/ p.is_featured = q.is_featured /\ p.is_promotion /\ ~q.is_promotion
      [] intent = "price_check" -> p.price_jod < q.price_jod
      [] OTHER ->
           \/ p.is_featured /\ ~q.is_featured
           \/ p.is_featured = q.is_featured /\ LexLess(p.name, q.name)

\* rows with equal sort keys stay in table order
RECURSIVE InsertRow(_, _, _)
InsertRow(intent, sorted, p) ==
    IF sorted = <<>> THEN <<p>>
    ELSE IF SortsBefore(intent, p, Head(sorted)) THEN <<p>> \o sorted
    ELSE <<Head(sorted)>> \o InsertRow(intent, Tail(sorted), p)

RECURSIVE OrderRows(_, _)
OrderRows(intent, rows) ==
    IF rows = <<>> THEN <<>>
    ELSE InsertRow(intent, OrderRows(intent, SubSeq(rows, 1, Len(rows) - 1)),
                   rows[Len(rows)])

\* the rows _query_products selects: available, matching one of the brands,
\* one of the categories and one of the name words when the entity is given,
\* inside the price range, ordered by intent, at most max_products_returned
SelectProducts(entities, intent, catalog) ==
    LET words == NameWords(entities.products)
        keep(p) ==
            /\ p.is_available
            /\ entities.brands # <<>> =>
                 \E b \in Range(entities.brands) : ILike(p.brand, b)
            /\ entities.categories # <<>> =>
                 \E c \in Range(entities.categories) : ILike(p.category, c)
            /\ words # {} => \E w \in words : ILike(p.name, w)
            /\ entities.price_range.min # 0 => p.price_jod >= entities.price_range.min
            /\ entities.price_range.max # 0 => p.price_jod <= entities.price_range.max
    IN  Prefix(OrderRows(intent, SelectSeq(catalog, keep)), max_products_returned)

\* the product name and the product entity of the price question
NameIPhone15ProMax == <<"i", "P", "h", "o", "n", "e", " ", "1", "5", " ", "P", "r", "o", " ", "M", "a", "x">>
EntityIPhone15 == <<"i", "p", "h", "o", "n", "e", " ", "1", "5">>

ProductRow(n, b, price, avail, feat) ==
    [name |-> n, brand |-> b, category |-> <<"S", "m", "a", "r", "t", "p", "h", "o", "n", "e", "s">>,
     price_jod |-> price, is_available |-> avail, is_featured |-> feat,
     is_promotion |-> FALSE]

\* iPhone 15 Pro Max on sale and withdrawn, iPhone 15, Galaxy S24
CatalogPool ==
    { ProductRow(NameIPhone15ProMax, <<"A", "p", "p", "l", "e">>, 1199, TRUE, TRUE),
      ProductRow(NameIPhone15ProMax, <<"A", "p", "p", "l", "e">>, 1199, FALSE, TRUE),
      ProductRow(<<"i", "P", "h", "o", "n", "e", " ", "1", "5">>, <<"A", "p", "p", "l", "e">>, 799, TRUE, FALSE),
      ProductRow(<<"G", "a", "l", "a", "x", "y", " ", "S", "2", "4">>,
                 <<"S", "a", "m", "s", "u", "n", "g">>, 899, TRUE, TRUE) }

NoPriceRange == [min |-> 0, max |-> 0]

\* product entities "iphone 15", "15" and "galaxy", the brand "samsung", the
\* category "phone" and a maximum price
CatalogEntities ==
    [products : {<<>>, <<EntityIPhone15>>, <<<<"1", "5">>>>,
                 <<<<"g", "a", "l", "a", "x", "y">>>>},
     brands : {<<>>, <<<<"s", "a", "m", "s", "u", "n", "g">>>>},
     categories : {<<>>, <<<<"p", "h", "o", "n", "e">>>>},
     price_range : {NoPriceRange, [min |-> 0, max |-> 1000]}]

CatalogInit ==
    /\ PipeIdle /\ StreamIdle /\ ExtIdle /\ fout = NoVal
    /\ fin \in [fn : {"catalog"}, entities : CatalogEntities,
                 intent : {"price_check", "recommendation", "general"},
                 catalog : SeqsUpTo(CatalogPool, MaxCatalog),
                 complexity : Complexities, language : ScorerLanguages,
                 others : BOOLEAN, text : {EmptyText, PlainAnswer}]

\* the product query, then the confidence of a generated answer; others:
\* services, store info and chunks were retrieved as well
ApplyCatalog ==
    /\ fin # NoVal /\ fin.fn = "catalog" /\ fout = NoVal
    /\ LET rows == SelectProducts(fin.entities, fin.intent, fin.catalog)
       IN  fout' = [products |-> rows,
                    confidence |->
                        CalculateHybridConfidence(rows # <<>>, fin.others,
                            fin.others, fin.others, 8000, fin.complexity,
                            fin.intent, fin.language, fin.text)]
    /\ UNCHANGED <<fin, pipeVars, streamVars, extVars>>

CatalogSpec == CatalogInit /\ [][ApplyCatalog]_vars

\* the price question about iPhone 15 was put to the catalog
PriceQuestion ==
    /\ fout # NoVal /\ fin.fn = "catalog"
    /\ fin.intent = "price_check" /\ fin.entities.products = <<EntityIPhone15>>

C21_SourcesDescribeChunks ==
    Retrieved =>
        /\ fout.sources = { fout.chunks[i].source : i \in 1..Len(fout.chunks) }
        /\ fout.average_score =
             (IF fout.chunks = <<>> THEN 0
              ELSE SumSeq([i \in 1..Len(fout.chunks) |-> fout.chunks[i].score])
                   \div Len(fout.chunks))

\* C22: generation leaves the retrieval results unchanged: after
\* _generate_hybrid_response the unstructured result and the catalog result
\* equal what the retrievers produced.
C22_GenerationKeepsRetrieval ==
    pc \in {"analytics", "returned"} =>
        /\ unstructured = RetrieveUnstructuredResult(replies.vector)
        /\ structured.products =
             SliceOf(replies.products, <<>>, replies.products.rows)
        /\ structured.services =
             SliceOf(replies.services, <<>>, replies.services.rows)
        /\ structured.store_info =
             SliceOf(replies.store_info, EmptyStore, replies.store_info.rows)

-----------------------------------------------------------------------------
(* POST /message: two requests served concurrently, each statement of the   *)
(* handler that touches the database a step of its own                      *)

WebRequests == {1, 2}

\* msg.session_id or str(uuid.uuid4()): a fresh identifier per request
NewSessionId(r, sid) ==
    IF sid = "none" THEN (IF r = 1 THEN "uuid-1" ELSE "uuid-2") ELSE sid

\* a request at the entry of message: the WebMsg fields and the handler's
\* locals session_id (sid), user and detected_language
WebMsg(m, sid, loc) ==
    [pc |-> "start", msg |-> m, session_id |-> sid, locale |-> loc,
     sid |-> "none", user |-> NoVal, detected |-> "none", result |-> NoVal]

\* a row of users: primary key, session_id, preferred_language
UserRow(id, sid, lang) == [id |-> id, session_id |-> sid, preferred_language |-> lang]

\* the except branch of message: ChatResponse with the fallback text
FallbackChatResponse(r, q) ==
    [kind |-> "fallback",
     session_id |-> IF q.session_id # "none" THEN q.session_id
                    ELSE IF r = 1 THEN "uuid-1b" ELSE "uuid-2b",
     language |-> IF q.locale = "none" THEN "en" ELSE q.locale, confidence |-> 150]

\* the ChatResponse of the normal path
ChatResponse(q) ==
    [kind |-> "answer", session_id |-> q.sid, language |-> q.detected,
     confidence |-> 0]

\* language=msg.locale or user.preferred_language or "auto"
LanguageHint(q) ==
    IF q.locale # "none" THEN q.locale ELSE q.user.preferred_language

\* rag_response["language"]: the analysis language, or the hint when the
\* generation fails and generate_response returns its fallback
RagLanguage(q, generated) ==
    IF generated THEN ResolveLanguage(q.msg, LanguageHint(q))
    ELSE FallbackResponse(LanguageHint(q)).language

WebInit ==
    /\ PipeIdle /\ StreamIdle /\ FunIdle /\ LoopIdle /\ IngestIdle
    /\ users \in { {}, {UserRow(0, "s1", "ar")} } /\ convs = {}
    /\ wreq \in [WebRequests -> { WebMsg(m, sid, loc) :
                     m \in { UserMessage(Text(0, 0, 20, 5, 0, FALSE, FALSE),
                                         FALSE, FALSE, TRUE),
                             UserMessage(Text(13, 1, 0, 3, 0, FALSE, FALSE),
                                         TRUE, FALSE, FALSE) },
                     sid \in SessionIds, loc \in {"none", "ar"} }]

WebStep(r, q) ==
    /\ wreq' = [wreq EXCEPT ![r] = q]
    /\ UNCHANGED <<pipeVars, streamVars, funVars, loopVars, ingestVars>>

\* session_id = ...; user = db.query(User).filter(...).first()
FindUser(r) ==
    /\ wreq[r].pc = "start"
    /\ LET sid == NewSessionId(r, wreq[r].session_id)
           found == { u \in users : u.session_id = sid }
       IN  WebStep(r, [wreq[r] EXCEPT
                         !.sid = sid,
                         !.user = IF found = {} THEN NoVal ELSE CHOOSE u \in found : TRUE,
                         !.pc = IF found = {} THEN "create" ELSE "history"])
    /\ UNCHANGED <<users, convs>>

\* the unique index on users.session_id
InsertUserNoIndex(rows, row) == [ok |-> TRUE, rows |-> rows \cup {row}]
InsertUser(rows, row) ==
    IF \E u \in rows : u.session_id = row.session_id
    THEN [ok |-> FALSE, rows |-> rows]
    ELSE [ok |-> TRUE, rows |-> rows \cup {row}]

\* db.add(user); db.commit(); db.refresh(user).  The second of two inserts of
\* one session_id raises and the handler answers from its except branch.
CreateUser(r) ==
    /\ wreq[r].pc = "create"
    /\ LET q == wreq[r]
           row == UserRow(r, q.sid, IF q.locale = "none" THEN "en" ELSE q.locale)
           ins == InsertUser(users, row)
       IN  /\ users' = ins.rows
           /\ WebStep(r, IF ins.ok
                         THEN [q EXCEPT !.user = row, !.pc = "history"]
                         ELSE [q EXCEPT !.result = FallbackChatResponse(r, q),
                                        !.pc = "done"])
    /\ UNCHANGED convs

\* the query of the last five conversations of the session
MessageHistory(r) ==
    /\ wreq[r].pc = "history"
    /\ WebStep(r, [wreq[r] EXCEPT !.pc = "rag"])
    /\ UNCHANGED <<users, convs>>

\* await enterprise_rag_service.generate_response(...)
CallRag(r) ==
    /\ wreq[r].pc = "rag"
    /\ \E generated \in BOOLEAN :
         WebStep(r, [wreq[r] EXCEPT !.detected = RagLanguage(wreq[r], generated),
                                    !.pc = "prefer"])
    /\ UNCHANGED <<users, convs>>

\* if detected_language != user.preferred_language: update and commit
UpdatePreference(r) ==
    /\ wreq[r].pc = "prefer"
    /\ LET q == wreq[r]
       IN  IF q.detected # q.user.preferred_language
           THEN /\ users' = { IF u.id = q.user.id
                              THEN [u EXCEPT !.preferred_language = q.detected]
                              ELSE u : u \in users }
                /\ WebStep(r, [q EXCEPT !.user.preferred_language = q.detected,
                                        !.pc = "save"])
           ELSE /\ users' = users
                /\ WebStep(r, [q EXCEPT !.pc = "save"])
    /\ UNCHANGED convs

\* db.add(conversation); db.commit()
SaveMessage(r) ==
    /\ wreq[r].pc = "save"
    /\ convs' = convs \cup { [id |-> r, session_id |-> wreq[r].sid,
                              language |-> wreq[r].detected] }
    /\ WebStep(r, [wreq[r] EXCEPT !.pc = "respond"])
    /\ UNCHANGED users

\* get_suggested_questions and return ChatResponse(...)
Respond(r) ==
    /\ wreq[r].pc = "respond"
    /\ WebStep(r, [wreq[r] EXCEPT !.result = ChatResponse(wreq[r]), !.pc = "done"])
    /\ UNCHANGED <<users, convs>>

\* a statement of the try block raises (the database is unreachable, the
\* suggestions call fails): the except branch returns the fallback
MessageFails(r) ==
    /\ wreq[r].pc \in {"start", "create", "history", "prefer", "save", "respond"}
    /\ WebStep(r, [wreq[r] EXCEPT !.result = FallbackChatResponse(r, wreq[r]),
                                  !.pc = "done"])
    /\ UNCHANGED <<users, convs>>

WebNext ==
    \E r \in WebRequests :
        \/ FindUser(r) \/ CreateUser(r) \/ MessageHistory(r) \/ CallRag(r)
        \/ UpdatePreference(r) \/ SaveMessage(r) \/ Respond(r) \/ MessageFails(r)

WebSpec == WebInit /\ [][WebNext]_vars

WebDone(r) == wreq # NoVal /\ wreq[r].pc = "done"

\* C23: an Arabic message sent to /message without locale and without
\* session id is answered with language ar, an English one with en.
C23_LanguageOfMessage ==
    \A r \in WebRequests :
        (WebDone(r) /\ wreq[r].locale = "none" /\ wreq[r].session_id = "none"
            /\ wreq[r].result.kind = "answer") =>
            wreq[r].result.language
                = DetectLanguage(wreq[r].msg.text, wreq[r].msg.qw)

\* C30: for two concurrent requests with one previously unseen session_id at
\* most one users row with that session_id exists, and each request that
\* ends has returned a response.
C30_OneUserPerSession ==
    /\ \A u1, u2 \in users : u1.session_id = u2.session_id => u1.id = u2.id
    /\ \A r \in WebRequests :
         WebDone(r) => wreq[r].result.kind \in {"answer", "fallback"}

\* both requests carried the unseen session id, both tried to create its
\* user, one got the row and the other answered with the fallback
C30_Witness ==
    /\ \A r \in WebRequests : WebDone(r) /\ wreq[r].session_id = "s1"
    /\ Cardinality({ u \in users : u.session_id = "s1" /\ u.id # 0 }) = 1
    /\ \E r \in WebRequests : wreq[r].result.kind = "answer"
    /\ \E r \in WebRequests :
         wreq[r].result.kind = "fallback" /\ wreq[r].user = NoVal
             /\ wreq[r].sid = "s1"

-----------------------------------------------------------------------------
(* One worker: the requests it serves are coroutines on one event loop      *)
(* thread; a coroutine gives the thread up only where it suspends.          *)

MaxTasks == 2          \* requests served by the worker at a time

\* the collaborator calls of generate_response, in order
CollaboratorCalls == <<"analysis", "catalog", "embedding", "vector", "generation">>

\* the calls made through a synchronous client: openai.OpenAI, the Pinecone
\* index and the SQLAlchemy session return only when the collaborator has
\* answered, and the coroutine does not suspend meanwhile
SyncCalls == {"analysis", "catalog", "embedding", "vector", "generation"}

LoopInit ==
    /\ PipeIdle /\ StreamIdle /\ FunIdle /\ WebIdle /\ IngestIdle
    /\ running = 0
    /\ tasks = [t \in 1..MaxTasks |-> [at |-> 0, waiting |-> FALSE, failed |-> {}]]

LoopFrame == UNCHANGED <<pipeVars, streamVars, funVars, webVars, ingestVars>>

\* the task runs up to its next collaborator call and issues it; it keeps
\* the thread during a synchronous call and releases it at an await
IssueCall(t) ==
    /\ running \in {0, t} /\ ~tasks[t].waiting
    /\ tasks[t].at < Len(CollaboratorCalls)
    /\ running = 0 =>
         (IF tasks[t].at = 0 THEN TRUE
          ELSE CollaboratorCalls[tasks[t].at] \notin SyncCalls)
    /\ tasks' = [tasks EXCEPT ![t].at = @ + 1, ![t].waiting = TRUE]
    /\ running' = IF CollaboratorCalls[tasks[t].at + 1] \in SyncCalls THEN t ELSE 0
    /\ LoopFrame

\* the collaborator answers or fails; the failure is caught where it is raised
CallReturns(t) ==
    /\ tasks[t].waiting
    /\ running = IF CollaboratorCalls[tasks[t].at] \in SyncCalls THEN t ELSE 0
    /\ \E ok \in BOOLEAN :
         tasks' = [tasks EXCEPT
                     ![t].waiting = FALSE,
                     ![t].failed = IF ok THEN @ ELSE @ \cup {CollaboratorCalls[tasks[t].at]}]
    /\ running' = t
    /\ LoopFrame

\* generate_response returns and the thread is free for the next task
FinishTask(t) ==
    /\ running = t /\ ~tasks[t].waiting /\ tasks[t].at = Len(CollaboratorCalls)
    /\ tasks' = [tasks EXCEPT ![t].at = @ + 1]
    /\ running' = 0
    /\ LoopFrame

LoopNext == \E t \in 1..MaxTasks : IssueCall(t) \/ CallReturns(t) \/ FinishTask(t)

LoopSpec == LoopInit /\ [][LoopNext]_vars

\* C24: while one request waits on a collaborator call, every other request
\* of the worker that has not finished can take a step.
C24_OthersProgress ==
    \A t, o \in 1..MaxTasks :
        (tasks # NoVal /\ t # o /\ tasks[t].waiting
            /\ tasks[o].at <= Len(CollaboratorCalls)) =>
            ENABLED (IssueCall(o) \/ CallReturns(o) \/ FinishTask(o))

\* C25: in every successful answer products_found, services_found and
\* context_chunks equal the numbers of products, services and chunks that
\* _build_data_context renders into the context (the first 6 products, every
\* service, the first 5 chunks).
C25_CountsAreRendered ==
    (Returned /\ response.metadata.processing_successful) =>
        /\ response.metadata.products_found = Len(Prefix(structured.products, 6))
        /\ response.metadata.services_found = Len(structured.services)
        /\ response.metadata.context_chunks = Len(Prefix(unstructured.chunks, 5))

\* C26: an error event of the streaming endpoint carries the localized
\* message and nothing of the exception: no event sent to the client holds
\* the text of the exception that was caught.
C26_ErrorEventHidesException ==
    \A i \in 1..Len(events) :
        events[i].type = "error" =>
            /\ events[i].content \in {"error_ar", "error_en"}
            /\ \A f \in DOMAIN events[i] :
                 f # "type" => events[i][f] \notin {"db_user", "db_history", "model", "db_save"}

----------------------------------------------------------------------------
(* Parsing of the analysis output in _analyze_query. The text of the model
   is a sequence of tokens: a fence of three backquotes, the word json,
   white space, and a JSON object. *)

Tok(t) == [t |-> t, v |-> NoVal]
ObjTok(o) == [t |-> "obj", v |-> o]

\* str.strip()
RECURSIVE LStrip(_)
LStrip(s) == IF s # <<>> /\ Head(s).t = "ws" THEN LStrip(Tail(s)) ELSE s
RECURSIVE RStrip(_)
RStrip(s) ==
    IF s # <<>> /\ s[Len(s)].t = "ws" THEN RStrip(SubSeq(s, 1, Len(s) - 1)) ELSE s
StripTokens(s) == RStrip(LStrip(s))

\* analysis_text.startswith('```json')
StartsWithJsonFence(s) == Len(s) >= 2 /\ s[1].t = "fence" /\ s[2].t = "json"

\* .replace('```json', '').replace('```', '')
RECURSIVE RemoveJsonFences(_)
RemoveJsonFences(s) ==
    IF s = <<>> THEN <<>>
    ELSE IF StartsWithJsonFence(s) THEN RemoveJsonFences(SubSeq(s, 3, Len(s)))
    ELSE <<Head(s)>> \o RemoveJsonFences(Tail(s))
RemoveFences(s) == SelectSeq(s, LAMBDA k : k.t # "fence")

\* the clean-up before json.loads
CleanAnalysisText(text) ==
    LET s == StripTokens(text)
    IN  IF StartsWithJsonFence(s) THEN StripTokens(RemoveFences(RemoveJsonFences(s))) ELSE s

\* json.loads: one object, white space around it allowed, anything else raises
JsonLoads(s) ==
    LET body == SelectSeq(s, LAMBDA k : k.t # "ws")
    IN  IF Len(body) = 1 /\ body[1].t = "obj" THEN body[1].v ELSE [kind |-> "bad_json"]

\* the ways the model wraps its JSON object
FenceStyles == {"plain", "json", "bare", "padded_json"}
Wrap(o, style) ==
    CASE style = "plain" -> <<ObjTok(o)>>
      [] style = "json" ->
            <<Tok("fence"), Tok("json"), Tok("ws"), ObjTok(o), Tok("ws"), Tok("fence")>>
      [] style = "bare" ->
            <<Tok("fence"), Tok("ws"), ObjTok(o), Tok("ws"), Tok("fence")>>
      [] style = "padded_json" ->
            <<Tok("ws"), Tok("fence"), Tok("json"), Tok("ws"), ObjTok(o), Tok("ws"),
              Tok("fence"), Tok("ws")>>

FenceInit ==
    /\ PipeIdle /\ StreamIdle /\ ExtIdle /\ fout = NoVal
    /\ fin \in [fn : {"fence"}, message : UserMessages, hint : {"auto", "en"},
                 object : { o \in AnalysisOutcomes : o.kind = "ok" },
                 style : FenceStyles]

\* the analysis _analyze_query returns for the wrapped text
ApplyFence ==
    /\ fin # NoVal /\ fin.fn = "fence" /\ fout = NoVal
    /\ fout' = AnalyzeResult(fin.message, fin.hint,
                             JsonLoads(CleanAnalysisText(Wrap(fin.object, fin.style))))
    /\ UNCHANGED <<fin, pipeVars, streamVars, extVars>>

FenceSpec == FenceInit /\ [][ApplyFence]_vars

\* C27: a JSON object wrapped in a code fence, with or without the json tag,
\* is parsed to the analysis the bare object is parsed to.
C27_FenceIsTransparent ==
    (fout # NoVal /\ fin.fn = "fence") =>
        fout = AnalyzeResult(fin.message, fin.hint, fin.object)

----------------------------------------------------------------------------
(* DocumentService.ingest_document. doc is the committed row of the
   documents table, index the number of vectors of the document in the vector
   index, ireq the locals of the call, iresult the dict it returns. *)

EmbedBatchSize == 50
UpsertBatchSize == 100

\* numbers of chunks process_document may produce
ChunkCounts == {0, 1, 49, 50, 51, 99, 100, 101, 150, 199, 200, 201, 250}

IngestInit ==
    /\ PipeIdle /\ StreamIdle /\ FunIdle /\ WebIdle /\ LoopIdle
    /\ ipc = "create"
    /\ ireq \in [chunks : ChunkCounts, embedded : {0}]
    /\ doc = NoVal /\ index = 0 /\ iresult = NoVal

IngestFrame == UNCHANGED <<pipeVars, streamVars, funVars, webVars, loopVars>>

\* the range of the loop of upsert_vectors: another batch is left
MoreBatchesFirstOnly(done, total) == done < total /\ done = 0
MoreBatches(done, total) == done < total

\* Document(status="processing"); db.add; db.commit; db.refresh
CreateRecord ==
    /\ ipc = "create"
    /\ \/ doc' = [status |-> "processing"] /\ ipc' = "process"
       \/ doc' = doc /\ ipc' = "except"
    /\ UNCHANGED <<ireq, index, iresult>> /\ IngestFrame

\* process_document returns its result; it never raises. A failed result
\* goes to the branch that marks the record, a result with chunks to
\* _process_chunks, one without chunks to the commit of completed
ProcessDocument ==
    /\ ipc = "process"
    /\ \/ ipc' = "mark_failed"
       \/ ipc' = (IF ireq.chunks > 0 THEN "embed" ELSE "mark_completed")
    /\ UNCHANGED <<ireq, doc, index, iresult>> /\ IngestFrame

\* doc_record.status = "failed"; db.commit(); return processing_result
MarkProcessingFailed ==
    /\ ipc = "mark_failed"
    /\ \/ /\ doc' = [status |-> "failed"]
          /\ iresult' = [status |-> "failed"]
          /\ ipc' = "returned"
       \/ UNCHANGED <<doc, iresult>> /\ ipc' = "except"
    /\ UNCHANGED <<ireq, index>> /\ IngestFrame

\* one turn of the embedding loop of _process_chunks: get_embeddings for the
\* next 50 texts, which may raise
EmbedBatch ==
    /\ ipc = "embed"
    /\ \/ LET e == Min(ireq.embedded + EmbedBatchSize, ireq.chunks)
          IN  /\ ireq' = [ireq EXCEPT !.embedded = e]
              /\ ipc' = (IF e < ireq.chunks THEN "embed" ELSE "upsert")
       \/ ireq' = ireq /\ ipc' = "except"
    /\ UNCHANGED <<doc, index, iresult>> /\ IngestFrame

\* one turn of the loop of upsert_vectors: index.upsert of the next 100
\* vectors, which may raise
UpsertBatch ==
    /\ ipc = "upsert"
    /\ IF MoreBatches(index, ireq.embedded)
       THEN \/ index' = Min(index + UpsertBatchSize, ireq.embedded) /\ ipc' = "upsert"
            \/ index' = index /\ ipc' = "except"
       ELSE index' = index /\ ipc' = "mark_completed"
    /\ UNCHANGED <<ireq, doc, iresult>> /\ IngestFrame

\* doc_record.status = "completed"; db.commit(); return the result
MarkCompleted ==
    /\ ipc = "mark_completed"
    /\ \/ /\ doc' = [status |-> "completed"]
          /\ iresult' = [status |-> "completed"]
          /\ ipc' = "returned"
       \/ UNCHANGED <<doc, iresult>> /\ ipc' = "except"
    /\ UNCHANGED <<ireq, index>> /\ IngestFrame

\* the except branch: doc_record.status = "failed"; db.commit(); return the
\* failed dict. The commit may raise again, and then the call raises. When
\* the first commit had failed the row may not exist after this one.
IngestException ==
    /\ ipc = "except"
    /\ \/ /\ doc' \in (IF doc = NoVal THEN {NoVal, [status |-> "failed"]}
                       ELSE {[status |-> "failed"]})
          /\ iresult' = [status |-> "failed"]
          /\ ipc' = "returned"
       \/ UNCHANGED <<doc, iresult>> /\ ipc' = "raised"
    /\ UNCHANGED <<ireq, index>> /\ IngestFrame

IngestSpec ==
    IngestInit /\ [][CreateRecord \/ ProcessDocument \/ MarkProcessingFailed
                     \/ EmbedBatch \/ UpsertBatch \/ MarkCompleted
                     \/ IngestException]_vars

\* C28: when ingest_document has returned, the record it created is completed
\* or failed, as the returned result says; and the record is completed only
\* when every chunk vector of the document is in the index.
C28_StatusIsFinal ==
    /\ (ipc = "returned" /\ doc # NoVal) =>
           /\ doc.status \in {"completed", "failed"}
           /\ doc.status = iresult.status
    /\ (doc # NoVal /\ doc.status = "completed") => index = ireq.chunks

\* a document of three upsert batches was ingested
C28_Witness ==
    ipc = "returned" /\ doc # NoVal /\ doc.status = "completed" /\ index = 250

\* C29: when ingest_document has returned failed, the index holds no vector
\* of the document.
C29_FailedLeavesNoVector ==
    (ipc = "returned" /\ iresult.status = "failed") => index = 0

====
